---- MODULE Spec2Model ----
(***************************************************************************)
(* Model of server.py (graduate-student record management).               *)
(*                                                                         *)
(* State: the students database (six tables and the AUTOINCREMENT         *)
(* counters), the admins database, the uploads folder, one Flask session per browser, the      *)
(* position of a running admin_student_delete handler, and a log of the   *)
(* request handled by the latest step together with its response.         *)
(*                                                                         *)
(* Every handler is one action, except admin_student_delete, whose six    *)
(* DELETE statements and final commit are separate steps so that what     *)
(* other sessions can see in between is part of the model.  sqlite3       *)
(* connections use the default isolation level: a DML statement opens a   *)
(* transaction implicitly, its changes are private to the connection      *)
(* until commit(), and a second writer waits for the lock.                *)
(*                                                                         *)
(* Left out: CSRF tokens, the available_courses bank, HTML templates.      *)
(***************************************************************************)
EXTENDS Integers, Sequences, FiniteSets, TLC

VARIABLES db, admins, uploads, user, key, del, last

vars == <<db, admins, uploads, user, key, del, last>>

(***************************************************************************)
(* Bounds                                                                  *)
(***************************************************************************)
MaxId == 2          \* students.id values the AUTOINCREMENT counter may issue
MaxCourses == 2     \* courses.id values the AUTOINCREMENT counter may issue
MaxMemberChars == 8 \* longest plan.members string a submission may store

Sessions == {"s1", "s2"}
Codes == {"c1", "c2"}
Methods == {"GET", "POST"}

(***************************************************************************)
(* Values                                                                  *)
(***************************************************************************)
NULL == "NULL"
NoKey == 0
Targets == 0..MaxId

\* session["user"]: the administrator's or the student's name, the role and,
\* for a student, the row id
NoUser == [username |-> "", role |-> "none", db_id |-> 0]
AdminSession(username, role) == [username |-> username, role |-> role, db_id |-> 0]
AdminUser == AdminSession("admin", "super")
StudentUser(k) == [username |-> db.students[k].full_name, role |-> "student", db_id |-> k]

\* werkzeug's password hashes: a hash is longer than 20 characters and matches
\* the password it was made from; NoPassword is a NULL password column
generate_password_hash(p) == <<"hash", p>>
check_password_hash(h, p) == h = <<"hash", p>>
NoPassword == <<>>

\* an uploaded file's name (stem.ext); NoFile: no upload, or a NULL/'' column
FileName(stem, ext) == [stem |-> stem, ext |-> ext]
NoFile == [kind |-> "none", sid |-> 0, name |-> FileName("", "")]
ImageFile(fn) == [kind |-> "img", sid |-> 0, name |-> fn]
ResearchFile(k, fn) == [kind |-> "research", sid |-> k, name |-> fn]

ALLOWED_EXTENSIONS == {"png", "jpg", "jpeg", "pdf", "doc", "docx"}
allowed_file(fn) == fn.ext \in ALLOWED_EXTENSIONS

\* str.strip() on the form tokens used here: a blank token becomes empty
strip(v) == IF v = " " THEN "" ELSE v

\* str.strip() on a string of characters (a sequence of one-character strings)
RECURSIVE str_strip(_)
str_strip(str) ==
  IF str = <<>> THEN str
  ELSE IF Head(str) = " " THEN str_strip(Tail(str))
  ELSE IF str[Len(str)] = " " THEN str_strip(SubSeq(str, 1, Len(str) - 1))
  ELSE str

\* a raw form value: the text of an integer, or text int() rejects (or no value)
Num(n) == [num |-> TRUE, v |-> n]
Junk == [num |-> FALSE, v |-> 0]

safe_int(raw) == IF raw.num THEN raw.v ELSE 0

\* request.form.get(f"cw{i}_{cid}", 0): the i-th coursework field of a course,
\* where fields is the sequence of the coursework fields the form carries for it
form_get(fields, i) == IF i \in DOMAIN fields THEN fields[i] ELSE Num(0)

\* cursor.fetchone(): the row in a list, or the empty list for None
fetchone(table, k) == IF k \in DOMAIN table THEN <<table[k]>> ELSE <<>>

Put(f, k, v) == [x \in (DOMAIN f) \cup {k} |-> IF x = k THEN v ELSE f[x]]
Drop(f, k) == [x \in (DOMAIN f) \ {k} |-> f[x]]

(***************************************************************************)
(* The students database                                                   *)
(***************************************************************************)
EmptyDb ==
  [students |-> <<>>, seq |-> 0,
   admission |-> <<>>,
   courses |-> <<>>, cseq |-> 0,
   research |-> <<>>,
   competency |-> <<>>,
   plan |-> <<>>]

Tables == <<"students", "admission", "courses", "research", "competency", "plan">>

CodeTaken_never(d, code, except) == FALSE

\* UNIQUE(student_id): some row other than `except` holds the code
CodeTaken(d, code, except) ==
  \E i \in DOMAIN d.students : i # except /\ d.students[i].student_id = code

\* DELETE FROM t WHERE id/student_id = k
DeleteFrom(d, t, k) ==
  CASE t = "students" -> [d EXCEPT !.students = Drop(@, k)]
    [] t = "admission" -> [d EXCEPT !.admission = Drop(@, k)]
    [] t = "courses" ->
         [d EXCEPT !.courses = [c \in {x \in DOMAIN @ : @[x].student_id # k} |-> @[c]]]
    [] t = "research" -> [d EXCEPT !.research = Drop(@, k)]
    [] t = "competency" -> [d EXCEPT !.competency = Drop(@, k)]
    [] t = "plan" -> [d EXCEPT !.plan = Drop(@, k)]

(***************************************************************************)
(* Sessions and the request log                                            *)
(***************************************************************************)
\* a semester average of the print view: a number (in hundredths) or '---'
Average(h) == [computed |-> TRUE, v |-> h]
NotComputed == [computed |-> FALSE, v |-> 0]

\* the template arguments of a page that shows no record
NoData ==
  [student |-> <<>>, admission |-> <<>>, courses |-> {}, research |-> <<>>,
   competency |-> <<>>, plan |-> <<>>, avg_sem1 |-> NotComputed, avg_sem2 |-> NotComputed]

\* the fields of request.form and the outcome of f.save the log keeps: nothing
NoForm ==
  [cw |-> <<>>, final |-> <<>>, action |-> "", course_id |-> Junk,
   member_to_delete |-> <<>>, new_member |-> <<>>,
   full_name |-> "", student_id |-> "", title |-> "", upload |-> NoFile,
   save_failed |-> FALSE, username |-> "", password |-> "", old_password |-> ""]

\* shown: the student whose record the page shows (or the delete removed);
\* flash: the flashed message; img/doc: outcome of the two file removals of a delete;
\* data: the template arguments of Review and of the print view;
\* arg: the <int:student_id> of the URL; form: what the request submitted
Log(s, op, m, kind, to, shown) ==
  [s |-> s, op |-> op, method |-> m, kind |-> kind, to |-> to, shown |-> shown,
   flash |-> "", img |-> "none", doc |-> "none", data |-> NoData, arg |-> 0,
   form |-> NoForm]

Flash(log, msg) == [log EXCEPT !.flash = msg]

Redirect(s, op, m, to) == Log(s, op, m, "redirect", to, 0)
Render(s, op, m, page, shown) == Log(s, op, m, "render", page, shown)
Abort403(s, op, m) == Log(s, op, m, "abort", "403", 0)
Fault500(s, op, m) == Log(s, op, m, "fault", "500", 0)

Idle(s) == del[s].pc = "idle"
NoDelete == [pc |-> "idle", k |-> 0, n |-> 0, img |-> "none", doc |-> "none"]

\* another connection holds the write lock
Locked == \E s \in Sessions : del[s].pc = "txn" /\ del[s].n > 0

LoggedIn(s) == user[s] # NoUser

IsStudent_never(s) == FALSE

\* session["user"].get("role") == "student"
IsStudent(s) == user[s].role = "student"

Unset_never(sid) == FALSE

\* `if not sid`: the key is missing from the session, or 0
Unset(sid) == sid = NoKey

IsAdmin_any(s) == TRUE

\* admin_only: session["user"]["role"] in ("super", "admin")
IsAdmin(s) == user[s].role \in {"super", "admin"}

\* init_admins on a new admins.db: the account admin / admin123, role super
DefaultAdmins ==
  [u \in {"admin"} |-> [password |-> generate_password_hash("admin123"), role |-> "super"]]

Init ==
  /\ db = EmptyDb
  /\ uploads = {}
  /\ admins = DefaultAdmins
  /\ user = [s \in Sessions |-> NoUser]
  /\ key = [s \in Sessions |-> NoKey]
  /\ del = [s \in Sessions |-> NoDelete]
  /\ last = Log("s1", "start", "GET", "render", "login", 0)

\* a request that answers without touching the database or the session
Answer(r) ==
  /\ last' = r
  /\ UNCHANGED <<db, uploads, user, key, del, admins>>

(***************************************************************************)
(* login / logout / reset                                                  *)
(***************************************************************************)
valid_student_default_kept(d, username, password) ==
  \E i \in DOMAIN d.students :
    /\ d.students[i].student_id = username
    /\ \/ check_password_hash(d.students[i].password, password)
       \/ password = d.students[i].student_id

\* the student row of that code exists and the password is its hash's, or,
\* with no hash stored, the code itself
valid_student(d, username, password) ==
  \E i \in DOMAIN d.students :
    /\ d.students[i].student_id = username
    /\ IF d.students[i].password # NoPassword
       THEN check_password_hash(d.students[i].password, password)
       ELSE password = d.students[i].student_id

login(s, username_in, password_in) ==
  LET username == strip(username_in)
      password == strip(password_in)
      form == [NoForm EXCEPT !.username = username, !.password = password]
  IN /\ Idle(s)
     /\ IF /\ username \in DOMAIN admins
           /\ check_password_hash(admins[username].password, password)
        THEN /\ user' = [user EXCEPT ![s] = AdminSession(username, admins[username].role)]
             /\ last' = [Redirect(s, "login", "POST", "dashboard") EXCEPT !.form = form]
             /\ UNCHANGED <<db, uploads, key, del, admins>>
        ELSE IF valid_student(db, username, password)
        THEN /\ \E i \in DOMAIN db.students :
                  /\ db.students[i].student_id = username
                  /\ user' = [user EXCEPT ![s] = StudentUser(i)]
             /\ last' = [Flash(Redirect(s, "login", "POST", "student_portal"), "welcome")
                          EXCEPT !.form = form]
             /\ UNCHANGED <<db, uploads, key, del, admins>>
        ELSE Answer([Flash(Render(s, "login", "POST", "login", 0), "invalid")
                      EXCEPT !.form = form])

logout(s) ==
  /\ Idle(s)
  /\ user' = [user EXCEPT ![s] = NoUser]
  /\ key' = [key EXCEPT ![s] = NoKey]
  /\ last' = Redirect(s, "logout", "GET", "login")
  /\ UNCHANGED <<db, uploads, del, admins>>

reset_keep_key(s) ==
  /\ Idle(s)
  /\ last' = Redirect(s, "reset", "GET", "info")
  /\ UNCHANGED <<db, uploads, user, key, del, admins>>

reset(s) ==
  /\ Idle(s)
  /\ key' = [key EXCEPT ![s] = NoKey]
  /\ last' = Redirect(s, "reset", "GET", "info")
  /\ UNCHANGED <<db, uploads, user, del, admins>>

(***************************************************************************)
(* The student's portal and password                                       *)
(***************************************************************************)
student_portal(s) ==
  /\ Idle(s)
  /\ IF ~LoggedIn(s) THEN Answer(Redirect(s, "student_portal", "GET", "login"))
     ELSE IF user[s].role # "student"
     THEN Answer(Redirect(s, "student_portal", "GET", "dashboard"))
     ELSE Answer([Render(s, "student_portal", "GET", "student_portal",
                         IF user[s].db_id \in DOMAIN db.students THEN user[s].db_id ELSE 0)
                   EXCEPT !.data =
                     [NoData EXCEPT !.student = fetchone(db.students, user[s].db_id),
                                    !.courses = {c \in DOMAIN db.courses :
                                                   db.courses[c].student_id = user[s].db_id}]])

\* the current password: the hash's, or, with no hash stored, the student code
is_old_valid(row, old_pass) ==
  IF row.password # NoPassword
  THEN check_password_hash(row.password, old_pass)
  ELSE old_pass = row.student_id

student_change_password(s, old_password, new_password) ==
  LET old_pass == strip(old_password)
      new_pass == strip(new_password)
      student_db_id == user[s].db_id
      form == [NoForm EXCEPT !.old_password = old_pass, !.password = new_pass]
  IN /\ Idle(s)
     /\ IF ~LoggedIn(s) THEN Answer(Redirect(s, "change_password", "POST", "login"))
        ELSE IF user[s].role # "student"
        THEN Answer(Redirect(s, "change_password", "POST", "login"))
        ELSE IF new_pass = "" \/ Len(new_pass) < 6
        THEN Answer([Flash(Redirect(s, "change_password", "POST", "student_portal"),
                           "too_short") EXCEPT !.form = form])
        ELSE IF student_db_id \notin DOMAIN db.students
        THEN Answer([Redirect(s, "change_password", "POST", "logout") EXCEPT !.form = form])
        ELSE IF ~is_old_valid(db.students[student_db_id], old_pass)
        THEN Answer([Flash(Redirect(s, "change_password", "POST", "student_portal"),
                           "wrong_password") EXCEPT !.form = form])
        ELSE /\ ~Locked
             /\ db' = [db EXCEPT !.students[student_db_id].password =
                                   generate_password_hash(new_pass)]
             /\ last' = [Flash(Redirect(s, "change_password", "POST", "student_portal"),
                               "changed") EXCEPT !.form = form]
             /\ UNCHANGED <<uploads, user, key, del, admins>>

(***************************************************************************)
(* The administrators page                                                 *)
(***************************************************************************)
may_delete_any_but_admin(s, username) == username # "admin"

\* the account is neither 'admin' nor the requester's own
may_delete(s, username) == username # "admin" /\ username # user[s].username

admins_page(s, m, action, username_in, password_in, role_in) ==
  LET username == strip(username_in)
      password == strip(password_in)
      role == strip(IF role_in = "" THEN "admin" ELSE role_in)
      page == [Render(s, "admins", m, "admins", 0)
                EXCEPT !.form = [NoForm EXCEPT !.action = action, !.username = username]]
  IN /\ Idle(s)
     /\ IF ~LoggedIn(s) THEN Answer(Redirect(s, "admins", m, "login"))
        ELSE IF ~IsAdmin(s) THEN Answer(Abort403(s, "admins", m))
        ELSE IF m = "POST" /\ action = "add" /\ username # "" /\ password # ""
        THEN IF username \in DOMAIN admins
             THEN Answer(Flash(page, "exists"))
             ELSE /\ admins' = Put(admins, username,
                                   [password |-> generate_password_hash(password),
                                    role |-> role])
                  /\ last' = Flash(page, "added")
                  /\ UNCHANGED <<db, uploads, user, key, del>>
        ELSE IF m = "POST" /\ action = "delete"
        THEN IF may_delete(s, username)
             THEN /\ admins' = Drop(admins, username)
                  /\ last' = Flash(page, "deleted")
                  /\ UNCHANGED <<db, uploads, user, key, del>>
             ELSE Answer(Flash(page, "cannot_delete"))
        ELSE Answer(page)

(***************************************************************************)
(* Wizard step 1: Identity                                                 *)
(***************************************************************************)
StudentRow(code, name, image) ==
  [student_id |-> code, full_name |-> name, image_filename |-> image,
   password |-> NoPassword]

\* UPDATE students SET ... image_filename=COALESCE(?, image_filename) WHERE id=sid
UpdateStudent(d, sid, code, name, fname) ==
  IF sid \in DOMAIN d.students
  THEN [d EXCEPT !.students[sid] =
         [@ EXCEPT !.student_id = code, !.full_name = name,
                   !.image_filename = IF fname # NoFile THEN fname ELSE @]]
  ELSE d

InsertStudent_max_plus_one(d, code, name, fname) ==
  LET ids == DOMAIN d.students
      id == IF ids = {} THEN 1 ELSE 1 + CHOOSE x \in ids : \A y \in ids : y <= x
  IN [d EXCEPT !.students = Put(@, id, StudentRow(code, name, fname)),
               !.seq = @ + 1]

\* INSERT INTO students ...; the AUTOINCREMENT id is never reused
InsertStudent(d, code, name, fname) ==
  [d EXCEPT !.students = Put(@, d.seq + 1, StudentRow(code, name, fname)),
            !.seq = @ + 1]

IntegrityError_insert_only(d, sid, code) ==
  sid = NoKey /\ CodeTaken(d, code, 0)

\* the statement raises sqlite3.IntegrityError
IntegrityError(d, sid, code) ==
  IF sid # NoKey
  THEN sid \in DOMAIN d.students /\ CodeTaken(d, code, sid)
  ELSE CodeTaken(d, code, 0)

info(s, m, full_name_in, student_id_in, f, save_ok) ==
  /\ Idle(s)
  /\ IF ~LoggedIn(s) THEN Answer(Redirect(s, "info", m, "login"))
     ELSE IF IsStudent(s) THEN Answer(Redirect(s, "info", m, "student_portal"))
     ELSE IF m = "POST"
     THEN LET full_name == strip(full_name_in)
              student_id_input == strip(student_id_in)
              fname == IF f # NoFile /\ allowed_file(f) THEN ImageFile(f) ELSE NoFile
              sid == key[s]
          IN IF full_name = "" \/ student_id_input = ""
             THEN Answer(Flash(Redirect(s, "info", m, "info"), "missing"))
             ELSE /\ ~Locked
                  /\ IF IntegrityError(db, sid, student_id_input)
                     THEN Answer([Flash(Redirect(s, "info", m, "info"), "conflict")
                                   EXCEPT !.form = [NoForm EXCEPT
                                            !.full_name = full_name,
                                            !.student_id = student_id_input]])
                     ELSE IF fname # NoFile /\ ~save_ok
                     THEN /\ sid = NoKey => db.seq < MaxId
                          /\ Answer([Fault500(s, "info", m)   \* f.save raises
                                      EXCEPT !.form = [NoForm EXCEPT
                                               !.full_name = full_name,
                                               !.student_id = student_id_input,
                                               !.upload = f,
                                               !.save_failed = TRUE]])
                     ELSE /\ sid = NoKey => db.seq < MaxId
                          /\ db' = IF sid # NoKey
                                   THEN UpdateStudent(db, sid, student_id_input, full_name, fname)
                                   ELSE InsertStudent(db, student_id_input, full_name, fname)
                          /\ uploads' = IF fname # NoFile THEN uploads \cup {fname} ELSE uploads
                          /\ key' = [key EXCEPT ![s] = IF sid # NoKey THEN sid ELSE db.seq + 1]
                          /\ last' = [Redirect(s, "info", m, "admission")
                                       EXCEPT !.form = [NoForm EXCEPT
                                                !.full_name = full_name,
                                                !.student_id = student_id_input,
                                                !.upload = f]]
                          /\ UNCHANGED <<user, del, admins>>
     ELSE Answer([Render(s, "info", m, "info",
                         IF key[s] \in DOMAIN db.students THEN key[s] ELSE 0)
                   EXCEPT !.data = [NoData EXCEPT !.student = fetchone(db.students, key[s])]])

(***************************************************************************)
(* Wizard steps 2..5: Admission, Courses, Research, Competency             *)
(***************************************************************************)
admission(s, m, type, avg, graduation_date) ==
  /\ Idle(s)
  /\ IF ~LoggedIn(s) THEN Answer(Redirect(s, "admission", m, "login"))
     ELSE IF IsStudent(s) THEN Answer(Redirect(s, "admission", m, "student_portal"))
     ELSE IF Unset(key[s]) THEN Answer(Redirect(s, "admission", m, "info"))
     ELSE IF m = "POST"
     THEN /\ ~Locked
          /\ db' = [db EXCEPT !.admission =
                     Put(@, key[s], [type |-> type, avg |-> avg,
                                     graduation_date |-> graduation_date])]
          /\ last' = Redirect(s, "admission", m, "courses")
          /\ UNCHANGED <<uploads, user, key, del, admins>>
     ELSE Answer(Render(s, "admission", m, "admission",
                        IF key[s] \in DOMAIN db.admission THEN key[s] ELSE 0))

CourseRow(sid, name, semester, credits) ==
  [student_id |-> sid, course_name |-> name, semester |-> semester, credits |-> credits,
   coursework_total |-> 0, coursework_breakdown |-> <<>>, final_exam |-> 0, grade |-> 0]

\* the loop over course_name[]: one INSERT per non-blank name, from index i on
RECURSIVE InsertCourses(_, _, _, _, _, _)
InsertCourses(d, sid, names, semesters, credits_list, i) ==
  IF i > Len(names) THEN d
  ELSE LET c_name == strip(names[i])
           c_cred == IF i <= Len(credits_list) THEN safe_int(credits_list[i]) ELSE 0
           c_sem == IF i <= Len(semesters) THEN str_strip(semesters[i]) ELSE <<>>
       IN IF c_name # ""
          THEN InsertCourses(
                 [d EXCEPT !.courses = Put(@, d.cseq + 1, CourseRow(sid, c_name, c_sem, c_cred)),
                           !.cseq = @ + 1],
                 sid, names, semesters, credits_list, i + 1)
          ELSE InsertCourses(d, sid, names, semesters, credits_list, i + 1)

DeleteCourse_any_owner(d, cid, sid) ==
  [d EXCEPT !.courses = [c \in {x \in DOMAIN @ : x # cid} |-> @[c]]]

\* DELETE FROM courses WHERE id=cid AND student_id=sid
DeleteCourse(d, cid, sid) ==
  [d EXCEPT !.courses = [c \in {x \in DOMAIN @ : ~(x = cid /\ @[x].student_id = sid)} |-> @[c]]]

courses(s, m, action, course_id, names, semesters, credits_list) ==
  /\ Idle(s)
  /\ IF ~LoggedIn(s) THEN Answer(Redirect(s, "courses", m, "login"))
     ELSE IF IsStudent(s) THEN Answer(Redirect(s, "courses", m, "student_portal"))
     ELSE IF Unset(key[s]) THEN Answer(Redirect(s, "courses", m, "info"))
     ELSE IF m = "POST"
     THEN /\ ~Locked
          /\ db' = IF action = "delete"
                   THEN IF safe_int(course_id) > 0
                        THEN DeleteCourse(db, safe_int(course_id), key[s])
                        ELSE db
                   ELSE InsertCourses(db, key[s], names, semesters, credits_list, 1)
          /\ db'.cseq <= MaxCourses
          /\ last' = [(IF action = "delete" /\ safe_int(course_id) > 0
                       THEN Flash(Redirect(s, "courses", m, "research"), "course_deleted")
                       ELSE Redirect(s, "courses", m, "research"))
                        EXCEPT !.form = [NoForm EXCEPT !.action = action,
                                                       !.course_id = course_id]]
          /\ UNCHANGED <<uploads, user, key, del, admins>>
     ELSE Answer(Render(s, "courses", m, "courses", key[s]))

coalesce_new_only(new, old) == new

\* COALESCE(?, (SELECT research_filename FROM research WHERE student_id=?))
coalesce(new, old) == IF new # NoFile THEN new ELSE old

research(s, m, title, f, save_ok) ==
  /\ Idle(s)
  /\ IF ~LoggedIn(s) THEN Answer(Redirect(s, "research", m, "login"))
     ELSE IF IsStudent(s) THEN Answer(Redirect(s, "research", m, "student_portal"))
     ELSE IF Unset(key[s]) THEN Answer(Redirect(s, "research", m, "info"))
     ELSE IF m = "POST"
     THEN LET sid == key[s]
              fname == IF f # NoFile /\ allowed_file(f) THEN ResearchFile(sid, f) ELSE NoFile
              old == IF sid \in DOMAIN db.research
                     THEN db.research[sid].research_filename ELSE NoFile
          IN IF fname # NoFile /\ ~save_ok
             THEN Answer([Fault500(s, "research", m)   \* f.save raises
                           EXCEPT !.form = [NoForm EXCEPT !.title = title, !.upload = f,
                                                          !.save_failed = TRUE]])
             ELSE /\ ~Locked
                  /\ uploads' = IF fname # NoFile THEN uploads \cup {fname} ELSE uploads
                  /\ db' = [db EXCEPT !.research =
                             Put(@, sid, [title |-> title,
                                          research_filename |-> coalesce(fname, old)])]
                  /\ last' = [Redirect(s, "research", m, "competency")
                               EXCEPT !.form = [NoForm EXCEPT !.title = title,
                                                              !.upload = f]]
                  /\ UNCHANGED <<user, key, del, admins>>
     ELSE Answer(Render(s, "research", m, "research",
                        IF key[s] \in DOMAIN db.research THEN key[s] ELSE 0))

competency(s, m, comp_exam) ==
  /\ Idle(s)
  /\ IF ~LoggedIn(s) THEN Answer(Redirect(s, "competency", m, "login"))
     ELSE IF IsStudent(s) THEN Answer(Redirect(s, "competency", m, "student_portal"))
     ELSE IF Unset(key[s]) THEN Answer(Redirect(s, "competency", m, "info"))
     ELSE IF m = "POST"
     THEN /\ ~Locked
          /\ db' = [db EXCEPT !.competency = Put(@, key[s], [exam_result |-> comp_exam])]
          /\ last' = Redirect(s, "competency", m, "plan")
          /\ UNCHANGED <<uploads, user, key, del, admins>>
     ELSE Answer(Render(s, "competency", m, "competency",
                        IF key[s] \in DOMAIN db.competency THEN key[s] ELSE 0))

(***************************************************************************)
(* Wizard step 6: CommitteePlan.  The members column is a string, here a   *)
(* sequence of one-character strings.                                      *)
(***************************************************************************)
\* str.split(',')
RECURSIVE split(_)
split(str) ==
  IF \A i \in 1..Len(str) : str[i] # "," THEN <<str>>
  ELSE LET i == CHOOSE x \in 1..Len(str) :
                  str[x] = "," /\ \A j \in 1..(x - 1) : str[j] # ","
       IN <<SubSeq(str, 1, i - 1)>> \o split(SubSeq(str, i + 1, Len(str)))

\* ", ".join(mems)
RECURSIVE join(_)
join(mems) ==
  IF mems = <<>> THEN <<>>
  ELSE IF Len(mems) = 1 THEN mems[1]
  ELSE mems[1] \o <<",", " ">> \o join(Tail(mems))

\* [m.strip() for m in members.split(',') if m.strip()]
parse_members(str) ==
  LET segs == split(str)
      F[i \in 0..Len(segs)] ==
        IF i = 0 THEN <<>>
        ELSE IF str_strip(segs[i]) # <<>> THEN Append(F[i - 1], str_strip(segs[i]))
        ELSE F[i - 1]
  IN F[Len(segs)]

InList(x, list) == \E i \in 1..Len(list) : list[i] = x

\* list.remove(x): drops the first occurrence
remove(list, x) ==
  LET i == CHOOSE j \in 1..Len(list) : list[j] = x /\ \A h \in 1..(j - 1) : list[h] # x
  IN SubSeq(list, 1, i - 1) \o SubSeq(list, i + 1, Len(list))

\* the loop over new_member[]
RECURSIVE add_members(_, _)
add_members(mems, new) ==
  IF new = <<>> THEN mems
  ELSE LET nm == str_strip(Head(new))
       IN add_members(IF nm # <<>> /\ ~InList(nm, mems) THEN Append(mems, nm) ELSE mems,
                      Tail(new))

plan(s, m, action, member_to_delete, new_member, form) ==
  /\ Idle(s)
  /\ IF ~LoggedIn(s) THEN Answer(Redirect(s, "plan", m, "login"))
     ELSE IF IsStudent(s) THEN Answer(Redirect(s, "plan", m, "student_portal"))
     ELSE IF Unset(key[s]) THEN Answer(Redirect(s, "plan", m, "info"))
     ELSE IF m = "POST"
     THEN IF key[s] \notin DOMAIN db.plan
          THEN Answer(Fault500(s, "plan", m))   \* curp is None: curp["members"] raises
          ELSE LET sid == key[s]
                   mems == parse_members(db.plan[sid].members)
               IN /\ ~Locked
                  /\ db' = IF action = "delete_member"
                           THEN [db EXCEPT !.plan = Put(@, sid,
                                  [committee_name |-> NULL, supervisor |-> NULL,
                                   members |-> join(IF InList(member_to_delete, mems)
                                                    THEN remove(mems, member_to_delete)
                                                    ELSE mems),
                                   discussion_date |-> NULL, notes |-> NULL])]
                           ELSE [db EXCEPT !.plan = Put(@, sid,
                                  [committee_name |-> form.committee_name,
                                   supervisor |-> form.supervisor,
                                   members |-> join(add_members(mems, new_member)),
                                   discussion_date |-> form.discussion_date,
                                   notes |-> form.notes])]
                  /\ Len(db'.plan[sid].members) <= MaxMemberChars
                  /\ last' = [Redirect(s, "plan", m, "review")
                               EXCEPT !.form = [NoForm EXCEPT
                                        !.action = action,
                                        !.member_to_delete = member_to_delete,
                                        !.new_member = new_member]]
                  /\ UNCHANGED <<uploads, user, key, del, admins>>
     ELSE Answer(Render(s, "plan", m, "plan",
                        IF key[s] \in DOMAIN db.plan THEN key[s] ELSE 0))

(***************************************************************************)
(* Review                                                                  *)
(***************************************************************************)
\* the rows of courses WHERE student_id = k
CoursesOf(d, k) == {c \in DOMAIN d.courses : d.courses[c].student_id = k}

\* the six SELECTs of review and of admin_student_print
load_full_record(d, k) ==
  [NoData EXCEPT !.student = fetchone(d.students, k),
                 !.admission = fetchone(d.admission, k),
                 !.courses = CoursesOf(d, k),
                 !.research = fetchone(d.research, k),
                 !.competency = fetchone(d.competency, k),
                 !.plan = fetchone(d.plan, k)]

review_unguarded(s) ==
  /\ Idle(s)
  /\ IF ~LoggedIn(s) THEN Answer(Redirect(s, "review", "GET", "login"))
     ELSE Answer([Render(s, "review", "GET", "review", key[s])
                   EXCEPT !.data = load_full_record(db, key[s])])

review(s) ==
  /\ Idle(s)
  /\ IF ~LoggedIn(s) THEN Answer(Redirect(s, "review", "GET", "login"))
     ELSE IF Unset(key[s]) THEN Answer(Redirect(s, "review", "GET", "info"))
     ELSE Answer([Render(s, "review", "GET", "review", key[s])
                   EXCEPT !.data = load_full_record(db, key[s])])

(***************************************************************************)
(* Administrative operations                                               *)
(***************************************************************************)
admin_student_full_edit(s, student_id) ==
  /\ Idle(s)
  /\ IF ~LoggedIn(s) THEN Answer(Redirect(s, "full_edit", "GET", "login"))
     ELSE IF ~IsAdmin(s) THEN Answer(Abort403(s, "full_edit", "GET"))
     ELSE /\ key' = [key EXCEPT ![s] = student_id]
          /\ last' = Redirect(s, "full_edit", "GET", "info")
          /\ UNCHANGED <<db, uploads, user, del, admins>>

admin_student_view(s, student_id) ==
  /\ Idle(s)
  /\ IF ~LoggedIn(s) THEN Answer(Redirect(s, "view", "GET", "login"))
     ELSE IF ~IsAdmin(s) THEN Answer(Abort403(s, "view", "GET"))
     ELSE /\ key' = [key EXCEPT ![s] = student_id]
          /\ last' = Redirect(s, "view", "GET", "review")
          /\ UNCHANGED <<db, uploads, user, del, admins>>

\* sum of a list of integers
RECURSIVE sum(_)
sum(list) == IF list = <<>> THEN 0 ELSE Head(list) + sum(Tail(list))

round2_whole(total, count) == 100 * ((2 * total + count) \div (2 * count))

\* round(total / count, 2), in hundredths: the nearest hundredth (the quotient
\* of integers has no tie between two hundredths while count < 8)
round2(total, count) == (200 * total + count) \div (2 * count)

GradeCourse_stale_grade(row, cw, final_in) ==
  LET breakdown == [i \in 1..5 |-> safe_int(form_get(cw, i))]
  IN [row EXCEPT !.coursework_total = sum(breakdown), !.coursework_breakdown = breakdown,
                 !.final_exam = safe_int(final_in)]

GradeCourse_capped(row, cw, final_in) ==
  LET breakdown == [i \in 1..5 |-> safe_int(form_get(cw, i))]
      cw_tot == sum(breakdown)
      final == safe_int(final_in)
  IN [row EXCEPT !.coursework_total = cw_tot, !.coursework_breakdown = breakdown,
                 !.final_exam = final,
                 !.grade = IF cw_tot + final > 100 THEN 100 ELSE cw_tot + final]

GradeCourse_skip_on_junk(row, cw, final_in) ==
  LET breakdown == [i \in 1..5 |-> safe_int(form_get(cw, i))]
      cw_tot == sum(breakdown)
      final == safe_int(final_in)
  IN IF ~final_in.num \/ \E i \in 1..5 : ~form_get(cw, i).num
     THEN row
     ELSE [row EXCEPT !.coursework_total = cw_tot, !.coursework_breakdown = breakdown,
                      !.final_exam = final, !.grade = cw_tot + final]

\* one UPDATE courses SET coursework_total=?, ... WHERE id=cid
GradeCourse(row, cw, final_in) ==
  LET breakdown == [i \in 1..5 |-> safe_int(form_get(cw, i))]
      cw_tot == sum(breakdown)
      final == safe_int(final_in)
  IN [row EXCEPT !.coursework_total = cw_tot, !.coursework_breakdown = breakdown,
                 !.final_exam = final, !.grade = cw_tot + final]

RECURSIVE SumGrades(_, _)
SumGrades(d, cs) ==
  IF cs = {} THEN 0
  ELSE LET c == CHOOSE x \in cs : TRUE
       IN d.courses[c].grade + SumGrades(d, cs \ {c})

admin_student_edit(s, student_id, m, type, cw, final) ==
  /\ Idle(s)
  /\ IF ~LoggedIn(s) THEN Answer(Redirect(s, "edit", m, "login"))
     ELSE IF ~IsAdmin(s) THEN Answer(Abort403(s, "edit", m))
     ELSE IF m = "POST"
     THEN LET cs == CoursesOf(db, student_id)
              graded == [db EXCEPT !.courses =
                          [c \in DOMAIN @ |->
                             IF c \in cs THEN GradeCourse(@[c], cw[c], final[c]) ELSE @[c]]]
              count_c == Cardinality(cs)
              avg == IF count_c # 0 THEN round2(SumGrades(graded, cs), count_c) ELSE 0
          IN /\ ~Locked
             /\ db' = [graded EXCEPT !.admission =
                        Put(@, student_id, [type |-> type, avg |-> avg,
                                            graduation_date |-> NULL])]
             /\ last' = [Redirect(s, "edit", m, "admin_students_list")
                          EXCEPT !.arg = student_id,
                                 !.form = [NoForm EXCEPT !.cw = cw, !.final = final]]
             /\ UNCHANGED <<uploads, user, key, del, admins>>
     ELSE Answer(Render(s, "edit", m, "admin_student_edit",
                        IF student_id \in DOMAIN db.students THEN student_id ELSE 0))

\* os.remove(path) inside try/except: the outcome, given that the call can succeed
Removal(fname, can_succeed) ==
  IF fname = NoFile THEN "none"
  ELSE IF fname \in uploads /\ can_succeed THEN "ok"
  ELSE "failed"

ExecuteInTxn_autocommit(d, t, k) == DeleteFrom(d, t, k)

\* the database other connections see after a DELETE executed in an open transaction
ExecuteInTxn(d, t, k) == d

\* the six DELETE statements, applied at commit
RECURSIVE Cascade(_, _, _)
Cascade(d, k, n) == IF n = 0 THEN d ELSE DeleteFrom(Cascade(d, k, n - 1), Tables[n], k)

\* up to the first DELETE: the two file removals
admin_student_delete(s, student_id, img_ok, doc_ok) ==
  /\ Idle(s)
  /\ IF ~LoggedIn(s) THEN Answer(Redirect(s, "delete", "POST", "login"))
     ELSE IF ~IsAdmin(s) THEN Answer(Abort403(s, "delete", "POST"))
     ELSE LET image == IF student_id \in DOMAIN db.students
                       THEN db.students[student_id].image_filename ELSE NoFile
              doc == IF student_id \in DOMAIN db.research
                     THEN db.research[student_id].research_filename ELSE NoFile
              r1 == Removal(image, img_ok)
              r2 == Removal(doc, doc_ok)
          IN /\ uploads' = uploads \ ((IF r1 = "ok" THEN {image} ELSE {})
                                         \cup (IF r2 = "ok" THEN {doc} ELSE {}))
             /\ del' = [del EXCEPT ![s] =
                          [pc |-> "txn", k |-> student_id, n |-> 0, img |-> r1, doc |-> r2]]
             /\ last' = Log(s, "delete", "POST", "pending", "", 0)
             /\ UNCHANGED <<db, user, key, admins>>

\* one DELETE FROM t of the loop; the first one takes the write lock
admin_student_delete_stmt(s) ==
  /\ del[s].pc = "txn"
  /\ del[s].n < Len(Tables)
  /\ \A o \in Sessions \ {s} : ~(del[o].pc = "txn" /\ del[o].n > 0)
  /\ db' = ExecuteInTxn(db, Tables[del[s].n + 1], del[s].k)
  /\ del' = [del EXCEPT ![s].n = @ + 1]
  /\ last' = Log(s, "delete", "POST", "pending", "", 0)
  /\ UNCHANGED <<uploads, user, key, admins>>

admin_student_delete_commit_abort(s) ==
  /\ del[s].pc = "txn"
  /\ del[s].n = Len(Tables)
  /\ db' = IF "failed" \in {del[s].img, del[s].doc}
           THEN db ELSE Cascade(db, del[s].k, Len(Tables))
  /\ del' = [del EXCEPT ![s] = NoDelete]
  /\ last' = [Redirect(s, "delete", "POST", "admin_students_list")
               EXCEPT !.shown = del[s].k, !.flash = "deleted",
                      !.img = del[s].img, !.doc = del[s].doc]
  /\ UNCHANGED <<uploads, user, key, admins>>

\* conn.commit() and the redirect
admin_student_delete_commit(s) ==
  /\ del[s].pc = "txn"
  /\ del[s].n = Len(Tables)
  /\ db' = Cascade(db, del[s].k, Len(Tables))
  /\ del' = [del EXCEPT ![s] = NoDelete]
  /\ last' = [Redirect(s, "delete", "POST", "admin_students_list")
               EXCEPT !.shown = del[s].k, !.flash = "deleted",
                      !.img = del[s].img, !.doc = del[s].doc]
  /\ UNCHANGED <<uploads, user, key, admins>>

\* the tokens 'first' and 'second' looked for in a semester label
FirstToken == <<"a", "w", "l">>
SecondToken == <<"t", "n", "y">>

\* token in label
Contains(label, token) ==
  \E i \in 1..(Len(label) - Len(token) + 1) : SubSeq(label, i, i + Len(token) - 1) = token

\* the courses counted in sum1, cnt1
FirstSemester(d, cs) == {c \in cs : Contains(d.courses[c].semester, FirstToken)}

SecondSemester_overlapping(d, cs) == {c \in cs : Contains(d.courses[c].semester, SecondToken)}

\* the courses counted in sum2, cnt2 (the elif branch)
SecondSemester(d, cs) ==
  {c \in cs : /\ ~Contains(d.courses[c].semester, FirstToken)
              /\ Contains(d.courses[c].semester, SecondToken)}

\* round(sum / cnt, 2) if cnt else '---'
semester_average(d, part) ==
  IF part # {} THEN Average(round2(SumGrades(d, part), Cardinality(part))) ELSE NotComputed

admin_student_print_unguarded(s, student_id) ==
  /\ Idle(s)
  /\ IF ~LoggedIn(s) THEN Answer(Redirect(s, "print", "GET", "login"))
     ELSE IF student_id \notin DOMAIN db.students \/ student_id \notin DOMAIN db.research
     THEN Answer([Fault500(s, "print", "GET") EXCEPT !.arg = student_id])
     ELSE Answer([Render(s, "print", "GET", "print_student", student_id)
                   EXCEPT !.arg = student_id, !.data =
                     [load_full_record(db, student_id)
                        EXCEPT !.avg_sem1 = semester_average(
                                 db, FirstSemester(db, CoursesOf(db, student_id))),
                               !.avg_sem2 = semester_average(
                                 db, SecondSemester(db, CoursesOf(db, student_id)))]])

admin_student_print(s, student_id) ==
  /\ Idle(s)
  /\ IF ~LoggedIn(s) THEN Answer(Redirect(s, "print", "GET", "login"))
     ELSE IF student_id \notin DOMAIN db.students
     THEN Answer([Fault500(s, "print", "GET") EXCEPT !.arg = student_id])
          \* s is None: s['id'] raises
     ELSE Answer([Render(s, "print", "GET", "print_student", student_id)
                   EXCEPT !.arg = student_id, !.data =
                     [load_full_record(db, student_id)
                        EXCEPT !.avg_sem1 = semester_average(
                                 db, FirstSemester(db, CoursesOf(db, student_id))),
                               !.avg_sem2 = semester_average(
                                 db, SecondSemester(db, CoursesOf(db, student_id)))]])

(***************************************************************************)
(* Inputs                                                                  *)
(***************************************************************************)
AdminLogin == <<"admin", "admin123">>
StudentLogins == {<<c, p>> : c \in Codes, p \in Codes}
InfoInputs == {<<"n1", c>> : c \in Codes} \cup {<<"", "c1">>, <<"n1", " ">>}
ImageInputs == {NoFile, FileName("a", "png"), FileName("a", "exe")}
DocInputs == {NoFile, FileName("d", "pdf")}
ResearchInputs ==
  {<<"ti", NoFile>>, <<"t2", NoFile>>, <<"t2", FileName("d", "exe")>>,
   <<"ti", FileName("d", "pdf")>>, <<"t2", FileName("e", "pdf")>>}
CourseNameInputs == {<<" ">>, <<"ai">>}
MemberInputs == {<<"A">>, <<" ", "B">>}
PlanForm == [committee_name |-> "cn", supervisor |-> "sv", discussion_date |-> "dd",
             notes |-> "nt"]
NoMarks == [c \in {} |-> <<>>]
SemesterInputs == {FirstToken, SecondToken, <<" ">> \o SecondToken \o FirstToken, <<"a", "w">>}
CourseInputs ==
  {[names |-> <<"ai">>, semesters |-> <<FirstToken>>],
   [names |-> <<"ai", " ", "db">>, semesters |-> <<FirstToken, FirstToken, SecondToken>>]}
\* the coursework fields and the final of one course in a grade submission
MarkInputs ==
  {[cw |-> <<>>, final |-> Junk],
   [cw |-> <<Num(60), Junk, Num(50)>>, final |-> Num(40)],
   [cw |-> <<Num(1), Num(1), Num(1), Num(1), Num(1), Num(1)>>, final |-> Num(0)]}
\* the form of a grade submission: the marks of course c0, and one mark of 70
\* and a final of 41 for every other course
GradeForms ==
  {[cw |-> [c \in 1..MaxCourses |-> IF c = c0 THEN mk.cw ELSE <<Num(70)>>],
    final |-> [c \in 1..MaxCourses |-> IF c = c0 THEN mk.final ELSE Num(41)]] :
     c0 \in 1..MaxCourses, mk \in MarkInputs}
\* the form of a grade submission that gives every course the same final
FinalForms ==
  {[cw |-> [c \in 1..MaxCourses |-> <<>>], final |-> [c \in 1..MaxCourses |-> fin]] :
     fin \in {Num(0), Num(1)}}
\* the course_id of a delete: a course id, no field (the default -1), or text
DeleteInputs == {Num(c) : c \in 1..MaxCourses} \cup {Num(-1), Junk}
MemberNames == {<<"A">>, <<" ", "B">>, <<"a">>, <<"A", ",", "B">>}
NewMemberInputs == {<<n>> : n \in MemberNames} \cup {<<<<"C">>, <<"C", " ">>>>}

(***************************************************************************)
(* Spec: one browser; the administrator's jumps follow the links of the    *)
(* student list, which names the students that exist.                      *)
(***************************************************************************)
Next ==
  \/ login("s1", AdminLogin[1], AdminLogin[2])
  \/ \E up \in StudentLogins : login("s1", up[1], up[2])
  \/ logout("s1")
  \/ reset("s1")
  \/ info("s1", "GET", "", "", NoFile, TRUE)
  \/ \E nc \in InfoInputs : info("s1", "POST", nc[1], nc[2], NoFile, TRUE)
  \/ \E m \in Methods : admission("s1", m, "t1", 0, "g1")
  \/ courses("s1", "GET", "add", Junk, <<>>, <<>>, <<>>)
  \/ \E ns \in CourseNameInputs : courses("s1", "POST", "add", Junk, ns, <<FirstToken>>, <<Num(3)>>)
  \/ \E m \in Methods : research("s1", m, "ti", NoFile, TRUE)
  \/ \E m \in Methods : competency("s1", m, "pass")
  \/ plan("s1", "GET", "add", <<>>, <<>>, PlanForm)
  \/ \E x \in MemberInputs : plan("s1", "POST", "add", x, <<x>>, PlanForm)
  \/ \E x \in MemberInputs : plan("s1", "POST", "delete_member", x, <<>>, PlanForm)
  \/ review("s1")
  \/ \E k \in DOMAIN db.students : admin_student_view("s1", k)
  \/ \E k \in DOMAIN db.students : admin_student_full_edit("s1", k)
  \/ \E k \in Targets : admin_student_print("s1", k)

Spec == Init /\ [][Next]_vars

(***************************************************************************)
(* SpecAdmin: one administrator's browser, typing any student id into the  *)
(* administrative URLs.                                                    *)
(***************************************************************************)
NextAdmin ==
  \/ login("s1", AdminLogin[1], AdminLogin[2])
  \/ reset("s1")
  \/ \E c \in Codes : info("s1", "POST", "n1", c, NoFile, TRUE)
  \/ admission("s1", "POST", "t1", 0, "g1")
  \/ competency("s1", "POST", "pass")
  \/ review("s1")
  \/ \E k \in Targets : admin_student_view("s1", k)
  \/ \E k \in Targets : admin_student_full_edit("s1", k)
  \/ \E k \in Targets : admin_student_edit("s1", k, "POST", "t2", NoMarks, NoMarks)
  \/ \E k \in Targets : admin_student_delete("s1", k, TRUE, TRUE)
  \/ admin_student_delete_stmt("s1")
  \/ admin_student_delete_commit("s1")

SpecAdmin == Init /\ [][NextAdmin]_vars

(***************************************************************************)
(* SpecIdentity: two administrators creating, renaming and deleting        *)
(* students (no dependent rows).                                           *)
(***************************************************************************)
NextIdentity ==
  \/ \E s \in Sessions : login(s, AdminLogin[1], AdminLogin[2])
  \/ \E s \in Sessions : reset(s)
  \/ \E s \in Sessions, nc \in InfoInputs, f \in ImageInputs, ok \in BOOLEAN :
        info(s, "POST", nc[1], nc[2], f, ok)
  \/ \E s \in Sessions, k \in Targets : admin_student_full_edit(s, k)
  \/ \E k \in Targets, i \in BOOLEAN : admin_student_delete("s2", k, i, TRUE)
  \/ admin_student_delete_stmt("s2")
  \/ admin_student_delete_commit("s2")

SpecIdentity == Init /\ [][NextIdentity]_vars

(***************************************************************************)
(* SpecCascade: the server started on a database file filled by an earlier *)
(* run (init_students_db creates only the tables that are missing).        *)
(* Student 1 has a portrait, a research document and a row in every        *)
(* table; student 2 has an admission row and a course.  Administrator s1   *)
(* deletes students while administrator s2 views and edits them.           *)
(***************************************************************************)
Portrait1 == ImageFile(FileName("a", "png"))
Document1 == ResearchFile(1, FileName("d", "pdf"))

LegacyDb ==
  [students |-> (1 :> StudentRow("c1", "n1", Portrait1) @@ 2 :> StudentRow("c2", "n1", NoFile)),
   seq |-> 2,
   admission |-> (1 :> [type |-> "t1", avg |-> 0, graduation_date |-> "g1"]
                  @@ 2 :> [type |-> "t1", avg |-> 0, graduation_date |-> "g1"]),
   courses |-> (1 :> CourseRow(1, "ai", FirstToken, 3) @@ 2 :> CourseRow(2, "ai", FirstToken, 3)),
   cseq |-> 2,
   research |-> (1 :> [title |-> "ti", research_filename |-> Document1]),
   competency |-> (1 :> [exam_result |-> "pass"]),
   plan |-> (1 :> [committee_name |-> "cn", supervisor |-> "sv",
                   members |-> <<"A", ",", " ", "B">>,
                   discussion_date |-> "dd", notes |-> "nt"])]

InitCascade ==
  /\ db = LegacyDb
  /\ uploads = {Portrait1, Document1}
  /\ admins = DefaultAdmins
  /\ user = [s \in Sessions |-> NoUser]
  /\ key = [s \in Sessions |-> NoKey]
  /\ del = [s \in Sessions |-> NoDelete]
  /\ last = Log("s1", "start", "GET", "render", "login", 0)

NextCascade ==
  \/ \E s \in Sessions : login(s, AdminLogin[1], AdminLogin[2])
  \/ \E k \in Targets, i \in BOOLEAN, d \in BOOLEAN : admin_student_delete("s1", k, i, d)
  \/ admin_student_delete_stmt("s1")
  \/ admin_student_delete_commit("s1")
  \/ \E k \in Targets : admin_student_view("s2", k)
  \/ review("s2")
  \/ admission("s2", "POST", "t1", 0, "g1")
  \/ plan("s2", "POST", "delete_member", <<"A">>, <<>>, PlanForm)
  \/ \E k \in Targets : admin_student_print("s2", k)

SpecCascade == InitCascade /\ [][NextCascade]_vars

(***************************************************************************)
(* SpecGrades: one administrator enters students and their courses, grades *)
(* them and prints them.                                                   *)
(***************************************************************************)
NextGrades ==
  \/ login("s1", AdminLogin[1], AdminLogin[2])
  \/ reset("s1")
  \/ \E c \in Codes : info("s1", "POST", "n1", c, NoFile, TRUE)
  \/ \E k \in DOMAIN db.students : admin_student_full_edit("s1", k)
  \/ \E ci \in CourseInputs :
        courses("s1", "POST", "add", Junk, ci.names, ci.semesters, <<Num(3)>>)
  \/ \E cid \in DeleteInputs : courses("s1", "POST", "delete", cid, <<>>, <<>>, <<>>)
  \/ \E k \in DOMAIN db.students, f \in GradeForms :
        admin_student_edit("s1", k, "POST", "t2", f.cw, f.final)

SpecGrades == Init /\ [][NextGrades]_vars

(***************************************************************************)
(* SpecPrint: one administrator enters one student's courses under         *)
(* various semester labels, grades them and prints the student.            *)
(***************************************************************************)
NextPrint ==
  \/ login("s1", AdminLogin[1], AdminLogin[2])
  \/ info("s1", "POST", "n1", "c1", NoFile, TRUE)
  \/ \E l \in SemesterInputs : courses("s1", "POST", "add", Junk, <<"ai">>, <<l>>, <<Num(3)>>)
  \/ \E c \in 1..MaxCourses : courses("s1", "POST", "delete", Num(c), <<>>, <<>>, <<>>)
  \/ \E k \in DOMAIN db.students, f \in FinalForms :
        admin_student_edit("s1", k, "POST", "t2", f.cw, f.final)
  \/ \E k \in DOMAIN db.students : admin_student_print("s1", k)

SpecPrint == Init /\ [][NextPrint]_vars

(***************************************************************************)
(* SpecPlan: the server started on the database file of SpecCascade; one   *)
(* administrator edits the committee members of its students.              *)
(***************************************************************************)
NextPlan ==
  \/ login("s1", AdminLogin[1], AdminLogin[2])
  \/ \E k \in Targets : admin_student_view("s1", k)
  \/ plan("s1", "GET", "add", <<>>, <<>>, PlanForm)
  \/ \E nm \in NewMemberInputs : plan("s1", "POST", "add", <<>>, nm, PlanForm)
  \/ \E x \in MemberNames : plan("s1", "POST", "delete_member", x, <<>>, PlanForm)
  \/ review("s1")

SpecPlan == InitCascade /\ [][NextPlan]_vars

(***************************************************************************)
(* SpecUploads: one administrator enters students with and without a       *)
(* portrait and submits their Research step with and without a document;   *)
(* writing a file to the upload folder may fail.                           *)
(***************************************************************************)
NextUploads ==
  \/ login("s1", AdminLogin[1], AdminLogin[2])
  \/ reset("s1")
  \/ info("s1", "GET", "", "", NoFile, TRUE)
  \/ \E c \in Codes, f \in ImageInputs, ok \in BOOLEAN : info("s1", "POST", "n1", c, f, ok)
  \/ \E k \in DOMAIN db.students : admin_student_full_edit("s1", k)
  \/ research("s1", "GET", "", NoFile, TRUE)
  \/ \E r \in ResearchInputs, ok \in BOOLEAN : research("s1", "POST", r[1], r[2], ok)

SpecUploads == Init /\ [][NextUploads]_vars

(***************************************************************************)
(* SpecLifetime: the server started on the database file of SpecCascade;   *)
(* administrator s1 works through the wizard, grades and deletes students  *)
(* while s2 logs in as a student, changes the password and requests the    *)
(* administrator's pages.                                                  *)
(***************************************************************************)
PasswordInputs == {<<"c1", "secret">>, <<"c2", "abc">>, <<"secret", "c1">>}
\* a grade submission that gives every course a final of 0 and no coursework
ZeroMarks ==
  [cw |-> [c \in 1..MaxCourses |-> <<>>], final |-> [c \in 1..MaxCourses |-> Num(0)]]

NextLifetime ==
  \/ login("s1", AdminLogin[1], AdminLogin[2])
  \/ \E p \in {"c1", "secret"} : login("s2", "c1", p)
  \/ logout("s2")
  \/ reset("s1")
  \/ info("s1", "POST", "n1", "c1", NoFile, TRUE)
  \/ \E k \in DOMAIN db.students : admin_student_full_edit("s1", k)
  \/ admission("s1", "POST", "t1", 0, "g1")
  \/ research("s1", "POST", "ti", NoFile, TRUE)
  \/ \E s \in Sessions : plan(s, "POST", "delete_member", <<"A">>, <<>>, PlanForm)
  \/ \E k \in DOMAIN db.students :
        admin_student_edit("s1", k, "POST", "t1", ZeroMarks.cw, ZeroMarks.final)
  \/ student_portal("s2")
  \/ \E p \in PasswordInputs : student_change_password("s2", p[1], p[2])
  \/ \E k \in DOMAIN db.students : admin_student_delete("s1", k, TRUE, TRUE)
  \/ admin_student_delete("s2", 1, TRUE, TRUE)
  \/ \E s \in Sessions : admin_student_delete_stmt(s)
  \/ \E s \in Sessions : admin_student_delete_commit(s)

SpecLifetime == InitCascade /\ [][NextLifetime]_vars

(***************************************************************************)
(* SpecPassword: administrator s1 enters and renames students and adds and *)
(* deletes an administrator account named like a student code; s2 logs in  *)
(* with student codes and changes the password.                            *)
(***************************************************************************)
LongCode == "code66"
Secrets == {"c1", LongCode, "secret"}

NextPassword ==
  \/ login("s1", AdminLogin[1], AdminLogin[2])
  \/ reset("s1")
  \/ \E c \in {"c1", LongCode} : info("s1", "POST", "n1", c, NoFile, TRUE)
  \/ \E k \in DOMAIN db.students : admin_student_full_edit("s1", k)
  \/ \E p \in {LongCode, "secret"} : admins_page("s1", "POST", "add", LongCode, p, "")
  \/ admins_page("s1", "POST", "delete", LongCode, "", "")
  \/ \E u \in {"c1", LongCode}, p \in Secrets : login("s2", u, p)
  \/ logout("s2")
  \/ \E old \in Secrets, new \in {"secret", LongCode, "abc"} :
        student_change_password("s2", old, new)

SpecPassword == Init /\ [][NextPassword]_vars

(***************************************************************************)
(* SpecAdmins: two browsers log in as 'admin' or as an account added on    *)
(* the admins page, and add and delete accounts there.                     *)
(***************************************************************************)
AccountNames == {"admin", "bob", "eve"}
RoleInputs == {"", "super", "viewer"}

NextAdmins ==
  \/ \E s \in Sessions : login(s, AdminLogin[1], AdminLogin[2])
  \/ \E s \in Sessions, u \in AccountNames : login(s, u, "pw")
  \/ \E s \in Sessions : logout(s)
  \/ \E s \in Sessions : admins_page(s, "GET", "", "", "", "")
  \/ \E s \in Sessions, u \in AccountNames \cup {" "}, r \in RoleInputs :
        admins_page(s, "POST", "add", u, "pw", r)
  \/ \E s \in Sessions, u \in AccountNames \cup {" "} :
        admins_page(s, "POST", "delete", u, "", "")

SpecAdmins == Init /\ [][NextAdmins]_vars

(***************************************************************************)
(* Claims                                                                  *)
(***************************************************************************)
DependentSteps == {"admission", "courses", "research", "competency", "plan"}
WriteSteps == DependentSteps \cup {"info"}
NextStep == [info |-> "admission", admission |-> "courses", courses |-> "research",
             research |-> "competency", competency |-> "plan", plan |-> "review"]

\* the request of this step was made by an administrator / by a student
ByAdmin(s) == user[s].role \in {"super", "admin"}
ByStudent(s) == user[s].role = "student"

\* C1 as stated: every request to a dependent step by a session whose key is unset
\* writes nothing and is redirected to Identity.
C1_AnySessionToIdentity ==
  [][(last'.op \in DependentSteps /\ key[last'.s] = NoKey)
       => (db' = db /\ uploads' = uploads
           /\ last'.kind = "redirect" /\ last'.to = "info")]_vars

\* C1 amended: a request to a dependent step by a session whose key is unset writes
\* nothing; it is redirected to Identity when the session is logged in and not a
\* student, to the portal when it is a student, to the login page when logged out.
C1_UnsetKeyWritesNothing ==
  [][(last'.op \in DependentSteps /\ key[last'.s] = NoKey)
       => /\ db' = db /\ uploads' = uploads /\ key' = key
          /\ last'.kind = "redirect"
          /\ last'.to = IF user[last'.s].role = "none" THEN "login"
                        ELSE IF ByStudent(last'.s) THEN "student_portal"
                        ELSE "info"]_vars

\* C1 witness: an administrator's POST to a dependent step with the key unset, on a
\* database that holds a student, was sent to Identity.
C1_Witness ==
  /\ last.op \in DependentSteps /\ last.method = "POST"
  /\ ByAdmin(last.s) /\ key[last.s] = NoKey
  /\ last.kind = "redirect" /\ last.to = "info"
  /\ db.students # <<>>

\* C2: every admission, course, research, competency and plan row references a
\* Student row that exists.
C2_ReferentialIntegrity ==
  /\ \A t \in {"admission", "research", "competency", "plan"} :
       DOMAIN db[t] \subseteq DOMAIN db.students
  /\ \A c \in DOMAIN db.courses : db.courses[c].student_id \in DOMAIN db.students

\* C3: a request to a write step by a student-role session changes no table, no
\* file and no session key, and is redirected to the student portal.
C3_StudentBarredFromWriteSteps ==
  [][(last'.op \in WriteSteps /\ ByStudent(last'.s))
       => /\ db' = db /\ uploads' = uploads /\ key' = key /\ user' = user
          /\ last'.kind = "redirect" /\ last'.to = "student_portal"]_vars

\* C3 witness: a student-role session whose key is set posted to a dependent step and
\* was sent to the portal.
C3_Witness ==
  /\ last.op \in DependentSteps /\ last.method = "POST"
  /\ ByStudent(last.s) /\ key[last.s] # NoKey
  /\ last.kind = "redirect" /\ last.to = "student_portal"

\* C4: no student-role session is ever served the Review page or the print view.
C4_StudentNeverServedReviewOrPrint ==
  ~(/\ last.op \in {"review", "print"}
    /\ last.kind = "render"
    /\ ByStudent(last.s))

\* C5: an Identity submission whose external code is held by a different student
\* (the session creating, or updating the student its key points to) changes no
\* Student row, keeps the session key, and is sent back to Identity with the
\* conflict message.
C5_ConflictChangesNothing ==
  [][\A s \in Sessions, c \in Codes, f \in ImageInputs, ok \in BOOLEAN :
       (/\ ByAdmin(s)
        /\ key[s] = NoKey \/ key[s] \in DOMAIN db.students
        /\ \E i \in DOMAIN db.students : i # key[s] /\ db.students[i].student_id = c
        /\ info(s, "POST", "n1", c, f, ok))
       => /\ db' = db /\ uploads' = uploads /\ key' = key
          /\ last'.s = s /\ last'.op = "info"
          /\ last'.kind = "redirect" /\ last'.to = "info"
          /\ last'.flash = "conflict"]_vars

\* C5 witness: a session whose key points to one of two existing students submitted
\* Identity and was re-prompted with the conflict message.
C5_Witness ==
  /\ last.op = "info" /\ last.flash = "conflict"
  /\ key[last.s] \in DOMAIN db.students
  /\ Cardinality(DOMAIN db.students) = 2

\* C6: no two Student rows hold the same external student code.
C6_CodeUnique ==
  \A i, j \in DOMAIN db.students :
    i # j => db.students[i].student_id # db.students[j].student_id

\* C6 witness: an Identity update of the older of two existing students succeeded.
C6_Witness ==
  /\ last.op = "info" /\ last.kind = "redirect" /\ last.to = "admission"
  /\ Cardinality(DOMAIN db.students) = 2
  /\ key[last.s] \in DOMAIN db.students /\ key[last.s] < db.seq

\* the rows of student k, as <<table, primary key>>
AllRows(d, k) ==
  {<<t, k>> : t \in {t \in {"students", "admission", "research", "competency", "plan"} :
                        k \in DOMAIN d[t]}}
    \cup {<<"courses", c>> : c \in {c \in DOMAIN d.courses : d.courses[c].student_id = k}}

\* every row that does not belong to student k is the same in d and e
SameOthers(d, e, k) ==
  /\ \A t \in {"students", "admission", "research", "competency", "plan"} :
       /\ DOMAIN d[t] \ {k} = DOMAIN e[t] \ {k}
       /\ \A j \in DOMAIN d[t] \ {k} : d[t][j] = e[t][j]
  /\ \A c \in DOMAIN d.courses \cup DOMAIN e.courses :
       (c \in DOMAIN d.courses /\ d.courses[c].student_id = k)
         \/ (c \in DOMAIN d.courses /\ c \in DOMAIN e.courses /\ d.courses[c] = e.courses[c])

\* C7: whatever the outcome of the two file removals, a finished delete of student k
\* leaves no row of k in any of the six tables and keeps every other row.
C7_DeleteRemovesAllRowsOfK ==
  [][(last'.op = "delete" /\ last'.kind = "redirect" /\ last'.to = "admin_students_list")
       => /\ AllRows(db', last'.shown) = {}
          /\ SameOthers(db, db', last'.shown)]_vars

\* C7 witness: student 1, who had a row in all six tables, was deleted although the
\* removal of the portrait failed (the file is still in the uploads folder); student 2
\* is still there.
C7_Witness ==
  /\ last.op = "delete" /\ last.flash = "deleted" /\ last.shown = 1
  /\ last.img = "failed" /\ last.doc = "ok"
  /\ Portrait1 \in uploads
  /\ AllRows(db, 1) = {}
  /\ 2 \in DOMAIN db.students

\* C8: no step of a delete leaves the committed database with some rows of a
\* student removed and others still present: in every step of the handler the
\* rows of each student are all kept or all gone.
C8_CascadeAtomic ==
  [][last'.op = "delete"
       => \A k \in Targets :
            AllRows(db', k) = AllRows(db, k) \/ AllRows(db', k) = {}]_vars

\* C8 witness: while the delete of student 1 has executed some of its DELETE
\* statements, another session's Review of student 1 reads all six kinds of rows.
C8_Witness ==
  /\ del["s1"].pc = "txn" /\ del["s1"].k = 1 /\ del["s1"].n \in 1..5
  /\ last.s = "s2" /\ last.op = "review" /\ last.kind = "render" /\ last.shown = 1
  /\ {r[1] : r \in AllRows(db, 1)} =
       {"students", "admission", "courses", "research", "competency", "plan"}

\* C9: for an administrator whose key points to an existing student, every
\* submission of a dependent step is accepted: its row is saved and the session is
\* redirected to the next step.
C9_EverySubmissionCompletes ==
  [][(/\ last'.op \in DependentSteps /\ last'.method = "POST"
      /\ ByAdmin(last'.s)
      /\ key[last'.s] \in DOMAIN db.students)
       => /\ last'.kind = "redirect" /\ last'.to = NextStep[last'.op]
          /\ last'.op # "courses" => key[last'.s] \in DOMAIN db'[last'.op]]_vars

\* the session was let into the step: the page was rendered or the submission accepted
Entered(l) ==
  \/ l.kind = "render"
  \/ l.op \in DependentSteps /\ l.kind = "redirect" /\ l.to = NextStep[l.op]

\* the table a completed step leaves a row in, for the steps that follow such a step
Previous == [courses |-> "admission", competency |-> "research", plan |-> "competency",
             review |-> "plan"]

\* C10 as stated: a session is let into a step only when the step before it has been
\* submitted for the current student (its row exists), except for Review right after
\* the administrator's jump.
C10_LinearOrderEnforced ==
  [][(/\ last'.op \in DOMAIN Previous
      /\ Entered(last')
      /\ ~(last'.op = "review" /\ last.op = "view"))
       => key[last'.s] \in DOMAIN db[Previous[last'.op]]]_vars

\* C10 amended: a session is let into a dependent step or Review only while its key
\* is set; the key becomes set only by an accepted Identity submission or an
\* administrator's jump (view, full_edit); an accepted submission of a step
\* redirects to the next step.
C10_StepsGatedByKeyOnly ==
  [][/\ (last'.op \in DependentSteps \cup {"review"} /\ Entered(last'))
         => key[last'.s] # NoKey
     /\ \A s \in Sessions :
          (key'[s] # key[s] /\ key'[s] # NoKey)
            => /\ last'.s = s
               /\ \/ /\ last'.op = "info" /\ last'.method = "POST"
                     /\ last'.to = "admission"
                     /\ key'[s] \in DOMAIN db'.students
                  \/ last'.op \in {"view", "full_edit"} /\ ByAdmin(s)
     /\ (last'.op \in DependentSteps /\ db' # db)
         => last'.kind = "redirect" /\ last'.to = NextStep[last'.op]]_vars

\* C10 witness: a Competency submission was accepted for a student who has neither an
\* Admission nor a Research row.
C10_Witness ==
  /\ last.op = "competency" /\ last.method = "POST" /\ last.to = "plan"
  /\ key[last.s] \in DOMAIN db.students
  /\ key[last.s] \in DOMAIN db.competency
  /\ key[last.s] \notin DOMAIN db.admission
  /\ key[last.s] \notin DOMAIN db.research

\* C11: reset clears the session's key, changes no row of any table and
\* redirects to Identity; an accepted Identity submission of a session whose
\* key is unset (as reset leaves it) inserts a new Student row, leaves every
\* existing Student row as it was and sets the key to the new row.
C11_ResetThenFreshIntake ==
  [][/\ last'.op = "reset" =>
          /\ key'[last'.s] = NoKey
          /\ db' = db
          /\ last'.kind = "redirect" /\ last'.to = "info"
     /\ (/\ last'.op = "info" /\ last'.method = "POST" /\ last'.to = "admission"
         /\ key[last'.s] = NoKey) =>
          /\ key'[last'.s] \notin DOMAIN db.students
          /\ key'[last'.s] \in DOMAIN db'.students
          /\ \A i \in DOMAIN db.students :
                i \in DOMAIN db'.students /\ db'.students[i] = db.students[i]]_vars

\* C11 witness: a second student has been created after the first one, each by
\* an accepted Identity submission, and both rows are stored.
C11_Witness ==
  /\ last.op = "info" /\ last.method = "POST" /\ last.to = "admission"
  /\ key[last.s] = 2
  /\ DOMAIN db.students = {1, 2}
  /\ db.students[1].student_id # db.students[2].student_id

\* C12: an accepted Identity submission with the key set updates the Student
\* row the key names in place (same set of ids, every other row unchanged, key
\* unchanged); with the key unset it inserts exactly one new row and sets the
\* key to the new row's id.
C12_EditOrCreateByKey ==
  [][(last'.op = "info" /\ last'.method = "POST" /\ last'.to = "admission") =>
       LET s == last'.s
       IN IF key[s] # NoKey
          THEN /\ key[s] \in DOMAIN db.students
               /\ DOMAIN db'.students = DOMAIN db.students
               /\ \A i \in DOMAIN db.students \ {key[s]} : db'.students[i] = db.students[i]
               /\ key'[s] = key[s]
          ELSE /\ key'[s] \notin DOMAIN db.students
               /\ DOMAIN db'.students = DOMAIN db.students \cup {key'[s]}
               /\ \A i \in DOMAIN db.students : db'.students[i] = db.students[i]]_vars

\* C13: Review with a key whose Student row is absent, and the print view of
\* an absent id, redirect to Identity: they render no record and end in no
\* unhandled fault.
C13_AbsentStudentRedirectsToIdentity ==
  LET k == IF last.op = "review" THEN key[last.s] ELSE last.arg
  IN (/\ last.op \in {"review", "print"}
      /\ user[last.s] # NoUser
      /\ k \notin DOMAIN db.students) =>
       last.kind = "redirect" /\ last.to = "info"

\* the student has a Student row and no row in any other table
Bare(d, k) ==
  /\ k \in DOMAIN d.students
  /\ k \notin DOMAIN d.admission \cup DOMAIN d.research
               \cup DOMAIN d.competency \cup DOMAIN d.plan
  /\ \A c \in DOMAIN d.courses : d.courses[c].student_id # k

\* C14: Review and the print view of an existing student with no Admission,
\* Research, Competency or CommitteePlan row and no courses render the record:
\* the Student row, an empty placeholder for each absent row and an empty list
\* of courses; they neither redirect as not found nor fault.
C14_BareStudentFullRecord ==
  LET k == IF last.op = "review" THEN key[last.s] ELSE last.arg
  IN (/\ last.op \in {"review", "print"}
      /\ user[last.s] # NoUser
      /\ Bare(db, k)) =>
       /\ last.kind = "render"
       /\ last.data.student = <<db.students[k]>>
       /\ last.data.admission = <<>> /\ last.data.research = <<>>
       /\ last.data.competency = <<>> /\ last.data.plan = <<>>
       /\ last.data.courses = {}

\* C14 witness: the print view of a student that has only its Student row
\* has been rendered.
C14_Witness ==
  /\ last.op = "print" /\ last.kind = "render"
  /\ Bare(db, last.arg)
  /\ last.data.student # <<>>

\* C15: in every reachable state every stored course row has
\* coursework_total = sum(breakdown) and grade = coursework_total + final_exam.
C15_CourseTotalsConsistent ==
  \A c \in DOMAIN db.courses :
    /\ db.courses[c].coursework_total = sum(db.courses[c].coursework_breakdown)
    /\ db.courses[c].grade = db.courses[c].coursework_total + db.courses[c].final_exam

\* C15 witness: after a course deletion the store holds a graded course next
\* to a course that was added later and never graded.
C15_Witness ==
  /\ last.op = "courses" /\ last.flash = "course_deleted"
  /\ \E c \in DOMAIN db.courses : db.courses[c].grade > 0
  /\ \E c \in DOMAIN db.courses : db.courses[c].coursework_breakdown = <<>>

\* the submitted coursework fields are all non-negative integers
NonNegativeIntegers(fields) == \A i \in DOMAIN fields : fields[i].num /\ fields[i].v >= 0

\* the sum of all the submitted fields, each worth its integer or 0
RECURSIVE SumOfFields(_)
SumOfFields(fields) ==
  IF fields = <<>> THEN 0
  ELSE (IF Head(fields).num THEN Head(fields).v ELSE 0) + SumOfFields(Tail(fields))

\* the step is an accepted grade submission
Graded(l) == l.op = "edit" /\ l.method = "POST" /\ l.kind = "redirect"

C17_JunkCountsZero ==
  [][(last'.op = "edit" /\ last'.method = "POST" /\ user[last'.s].role = "super") =>
       /\ last'.kind = "redirect"
       /\ \A c \in CoursesOf(db, last'.arg) :
            LET f == last'.form.cw[c]
                worth == [i \in 1..5 |-> IF i \in DOMAIN f /\ f[i].num THEN f[i].v ELSE 0]
                fin == IF last'.form.final[c].num THEN last'.form.final[c].v ELSE 0
            IN /\ db'.courses[c].coursework_breakdown = worth
               /\ db'.courses[c].coursework_total =
                    worth[1] + worth[2] + worth[3] + worth[4] + worth[5]
               /\ db'.courses[c].final_exam = fin
               /\ db'.courses[c].grade = db'.courses[c].coursework_total + fin]_vars

\* C17 witness: a submission with an unparseable entry for one course has
\* graded that course from its other entries and another course of the same
\* student from its own.
C17_Witness ==
  /\ Graded(last)
  /\ \E c, o \in CoursesOf(db, last.arg) :
        /\ c # o
        /\ \E i \in DOMAIN last.form.cw[c] : ~last.form.cw[c][i].num
        /\ db.courses[c].coursework_total = 110
        /\ db.courses[o].grade = 111

ReportOf(d, part, shown) ==
  IF part = {} THEN shown = NotComputed
  ELSE LET n == Cardinality(part)
           e == 100 * SumGrades(d, part) - n * shown.v
       IN shown.computed /\ 2 * e <= n /\ -2 * e <= n

\* C19: the print view reports, for the courses whose label contains the
\* first-semester token and for the courses whose label contains the
\* second-semester token but not the first, the mean grade to the nearest
\* hundredth, and the not-computed sentinel (which is not the value reported
\* for a mean of 0) for an empty partition.
C19_SemesterAverages ==
  (last.op = "print" /\ last.kind = "render") =>
    LET cs == CoursesOf(db, last.arg)
        first == {c \in cs : Contains(db.courses[c].semester, FirstToken)}
        second == {c \in cs \ first : Contains(db.courses[c].semester, SecondToken)}
    IN /\ ReportOf(db, first, last.data.avg_sem1)
       /\ ReportOf(db, second, last.data.avg_sem2)
       /\ first # {} => last.data.avg_sem1 # NotComputed
       /\ second # {} => last.data.avg_sem2 # NotComputed

\* C19 witness: the print view of a student with a course in both partitions
\* at once (counted in the first) reports a first-semester mean of 0 and no
\* second-semester mean.
C19_Witness ==
  /\ last.op = "print" /\ last.kind = "render"
  /\ \E c \in CoursesOf(db, last.arg) :
        /\ Contains(db.courses[c].semester, FirstToken)
        /\ Contains(db.courses[c].semester, SecondToken)
  /\ last.data.avg_sem1 = Average(0)
  /\ last.data.avg_sem2 = NotComputed

\* C20: in every reachable state the stored member string of every plan row
\* parses to a list with no repeated name.
C20_MembersDuplicateFree ==
  \A k \in DOMAIN db.plan :
    LET mems == parse_members(db.plan[k].members)
    IN \A i, j \in 1..Len(mems) : mems[i] = mems[j] => i = j

\* a plan submission that was carried out, with the given action
PlanDone(l, action) ==
  /\ l.op = "plan" /\ l.method = "POST" /\ l.kind = "redirect" /\ l.to = "review"
  /\ l.form.action = action

\* C21: a delete_member submission removes the first exact match of the name
\* from the member list, keeps the order of the others and keeps committee
\* name, supervisor, discussion date and notes; when the name is absent the
\* stored plan row is unchanged.
C21_RemoveMemberFrame ==
  [][PlanDone(last', "delete_member") =>
       LET k == key[last'.s]
           old == db.plan[k]
           new == db'.plan[k]
           mems == parse_members(old.members)
           x == last'.form.member_to_delete
       IN /\ parse_members(new.members) = IF InList(x, mems) THEN remove(mems, x) ELSE mems
          /\ new.committee_name = old.committee_name
          /\ new.supervisor = old.supervisor
          /\ new.discussion_date = old.discussion_date
          /\ new.notes = old.notes
          /\ ~InList(x, mems) => new = old]_vars

\* C22: the member list an add submission builds (the stored names followed by
\* the new, trimmed, non-blank names not yet in it) is the list its stored
\* comma-joined string parses back to, and the empty string parses to the
\* empty list.
C22_MemberListRoundTrip ==
  [][PlanDone(last', "add") =>
       LET k == key[last'.s]
           built == add_members(parse_members(db.plan[k].members), last'.form.new_member)
       IN /\ parse_members(db'.plan[k].members) = built
          /\ parse_members(<<>>) = <<>>]_vars

\* an upload the handler accepts: a file is attached and its extension is allowed
Accepted(f) == f # NoFile /\ allowed_file(f)

\* a Research submission that was carried out
ResearchDone(l) ==
  l.op = "research" /\ l.method = "POST" /\ l.kind = "redirect" /\ l.to = "competency"

\* C23: a Research submission without a new accepted upload leaves the
\* student's stored document reference as it was and replaces the other
\* fields by the submitted values; one with a new accepted upload stores the
\* reference of the new file.
C23_DocumentReferenceCoalesced ==
  [][ResearchDone(last') =>
       LET k == key[last'.s]
           f == last'.form.upload
           old == IF k \in DOMAIN db.research
                  THEN db.research[k].research_filename ELSE NoFile
       IN /\ k \in DOMAIN db'.research
          /\ db'.research[k].title = last'.form.title
          /\ db'.research[k].research_filename =
                IF Accepted(f) THEN ResearchFile(k, f) ELSE old]_vars

\* C23 witness: a Research submission with a rejected attachment and a changed
\* title was carried out for a student whose document reference is still set.
C23_Witness ==
  /\ ResearchDone(last)
  /\ last.form.upload # NoFile /\ ~Accepted(last.form.upload)
  /\ db.research[key[last.s]].title = "t2"
  /\ db.research[key[last.s]].research_filename = ResearchFile(key[last.s], FileName("d", "pdf"))

\* C24: a submission of Identity or Research whose file could not be written
\* to the upload folder is answered with the redirect to the next step, and
\* the submitted record is stored, without a reference to the new file.
C24_SaveFailureNonFatal ==
  [][(last'.op \in {"info", "research"} /\ last'.form.save_failed) =>
       /\ last'.kind = "redirect" /\ last'.to = NextStep[last'.op]
       /\ LET k == key'[last'.s]
          IN IF last'.op = "info"
             THEN /\ k \in DOMAIN db'.students
                  /\ db'.students[k].student_id = last'.form.student_id
                  /\ db'.students[k].full_name = last'.form.full_name
                  /\ db'.students[k].image_filename # ImageFile(last'.form.upload)
             ELSE /\ k \in DOMAIN db'.research
                  /\ db'.research[k].title = last'.form.title
                  /\ db'.research[k].research_filename # ResearchFile(k, last'.form.upload)]_vars

\* an Identity submission that was rejected with Conflict
Conflict(l) ==
  l.op = "info" /\ l.method = "POST" /\ l.kind = "redirect" /\ l.flash = "conflict"

\* C25: the Identity form a session is shown right after its submission was
\* rejected with Conflict carries the full name and the student code that
\* submission entered.
C25_ConflictFormKeepsEnteredValues ==
  [][(/\ Conflict(last)
      /\ last'.s = last.s /\ last'.op = "info" /\ last'.method = "GET"
      /\ last'.kind = "render") =>
       /\ last'.data.student # <<>>
       /\ last'.data.student[1].full_name = last.form.full_name
       /\ last'.data.student[1].student_id = last.form.student_id]_vars

\* the tables that hold at most one row per student, keyed by the student's id
OneToOne == {"students", "admission", "research", "competency", "plan"}

\* C26: a step in which the Student row or a one-to-one dependent row of a
\* student id disappears is the commit of delete_student for that id,
\* requested by an administrator.
C26_RemovedOnlyByAdminDelete ==
  [][\A t \in OneToOne : \A k \in DOMAIN db[t] :
        k \notin DOMAIN db'[t] =>
          /\ last'.op = "delete" /\ last'.kind = "redirect" /\ last'.shown = k
          /\ ByAdmin(last'.s)]_vars

\* C26 witness: an administrator's delete of student 1 has removed its rows
\* while student 2, edited through the wizard, keeps every row.
C26_Witness ==
  /\ last.op = "delete" /\ last.kind = "redirect" /\ last.shown = 1
  /\ \A t \in OneToOne : 1 \notin DOMAIN db[t]
  /\ \A t \in {"students", "admission", "research"} : 2 \in DOMAIN db[t]

\* the login request of this step has given its session to student k
LoggedInAs(k) ==
  /\ last'.kind = "redirect"
  /\ user'[last'.s].role = "student" /\ user'[last'.s].db_id = k

\* the submitted password is the one student row r asks for: the student code
\* while no credential is stored, afterwards the password the credential was
\* made from
Matches(r, password) ==
  IF r.password = NoPassword THEN password = r.student_id
  ELSE r.password = generate_password_hash(password)

\* the submitted username and password are those of an administrator account
AdminAccepts(username, password) ==
  /\ username \in DOMAIN admins
  /\ admins[username].password = generate_password_hash(password)

\* a password change stores the credential of the new password when it
\* succeeds, and changes nothing when it fails
PasswordChange ==
  last'.op = "change_password" =>
    IF last'.flash = "changed"
    THEN LET k == user[last'.s].db_id
         IN /\ db' = [db EXCEPT !.students[k].password =
                                  generate_password_hash(last'.form.password)]
            /\ Len(last'.form.password) >= 6
            /\ Matches(db.students[k], last'.form.old_password)
    ELSE db' = db

\* C27 as stated: a login under a student's code gives the session to that
\* student exactly when the submitted password is the student code (no
\* credential stored) or the password of the last successful change; a
\* successful change stores the new password's credential and a failed one
\* leaves the credential unchanged.
C27_StudentAuthenticates ==
  [][/\ last'.op = "login" =>
          \A k \in DOMAIN db.students :
            db.students[k].student_id = last'.form.username =>
              (LoggedInAs(k) <=> Matches(db.students[k], last'.form.password))
     /\ PasswordChange]_vars

\* C27 amended: the same, for submissions that are not the username and
\* password of an administrator account; those are matched first and give an
\* administrator's session.
C27_StudentAuthenticatesUnlessAdmin ==
  [][/\ last'.op = "login" =>
          \A k \in DOMAIN db.students :
            db.students[k].student_id = last'.form.username =>
              (LoggedInAs(k) <=>
                 /\ Matches(db.students[k], last'.form.password)
                 /\ ~AdminAccepts(last'.form.username, last'.form.password))
     /\ PasswordChange]_vars

\* C27 witness: a student who changed the password is refused when logging in
\* with the student code.
C27_Witness ==
  /\ last.op = "login" /\ last.flash = "invalid"
  /\ \E k \in DOMAIN db.students :
       /\ db.students[k].student_id = last.form.username
       /\ db.students[k].password # NoPassword
       /\ last.form.password = db.students[k].student_id

\* C28: a Student row that appears gets an id above every id issued before
\* (the ids issued so far never exceed the AUTOINCREMENT counter, which never
\* decreases), and a session key that refers to a deleted student (an issued
\* id without a row) does not come to refer to a student in a step that leaves
\* the key alone.
C28_IdsNeverReused ==
  [][/\ \A i \in DOMAIN db'.students \ DOMAIN db.students : i > db.seq
     /\ db'.seq >= db.seq
     /\ \A i \in DOMAIN db'.students : i <= db'.seq
     /\ \A s \in Sessions :
          (key[s] \in 1..db.seq /\ key[s] \notin DOMAIN db.students /\ key'[s] = key[s])
            => key[s] \notin DOMAIN db'.students]_vars

\* C28 witness: student 1 was deleted while a session's key still refers to
\* it, and a student created afterwards has id 2.
C28_Witness ==
  /\ key["s1"] = 1 /\ 1 \notin DOMAIN db.students
  /\ 2 \in DOMAIN db.students

\* a delete submission at the Courses step that was carried out
CourseDeleteDone(l) ==
  /\ l.op = "courses" /\ l.method = "POST" /\ l.kind = "redirect"
  /\ l.form.action = "delete"

\* C29: a delete submission at the Courses step removes at most one course
\* row, the one with the submitted id and only if it belongs to the session's
\* current student; every other course row and every non-course row is
\* unchanged, and a non-numeric or non-positive id removes nothing.
C29_CourseDeleteFrame ==
  [][CourseDeleteDone(last') =>
       LET cid == last'.form.course_id
           k == key[last'.s]
           removed == DOMAIN db.courses \ DOMAIN db'.courses
       IN /\ Cardinality(removed) <= 1
          /\ \A c \in removed : db.courses[c].student_id = k /\ cid = Num(c)
          /\ \A c \in DOMAIN db'.courses :
               c \in DOMAIN db.courses /\ db'.courses[c] = db.courses[c]
          /\ [db' EXCEPT !.courses = db.courses] = db
          /\ (~cid.num \/ cid.v <= 0) => db' = db]_vars

\* C29 witness: a delete naming a course of another student than the
\* session's current one was carried out and the course is still stored.
C29_Witness ==
  /\ CourseDeleteDone(last)
  /\ \E c \in DOMAIN db.courses :
       /\ last.form.course_id = Num(c)
       /\ db.courses[c].student_id # key[last.s]
       /\ db.courses[c].student_id \in DOMAIN db.students

\* C30: the account named 'admin' exists before and after every step, and a
\* delete on the admins page that names 'admin' or the requester's own
\* username leaves the admins table unchanged.
C30_AdminAccountKept ==
  [][/\ "admin" \in DOMAIN admins /\ "admin" \in DOMAIN admins'
     /\ (/\ last'.op = "admins" /\ last'.form.action = "delete"
         /\ last'.form.username \in {"admin", user[last'.s].username})
          => admins' = admins]_vars

\* C30 witness: an administrator other than 'admin' asked to delete the
\* account they are logged in as, was refused, and the account exists.
C30_Witness ==
  /\ last.op = "admins" /\ last.form.action = "delete"
  /\ last.flash = "cannot_delete"
  /\ last.form.username = user[last.s].username
  /\ last.form.username # "admin"
  /\ last.form.username \in DOMAIN admins

====
